---- MODULE Spec2Model ----
(***************************************************************************)
(* llmcord (src/llmcord.py): the on_message handler as a state machine.    *)
(*                                                                         *)
(* One task per incoming message, interleaved at the handler's awaits on   *)
(* one asyncio loop.  Shared state: message_nodes (id -> MessageNode       *)
(* object) and in_progress_message_ids.  MessageNode objects live in       *)
(* `heap' and are referred to by address, because replied_to holds an      *)
(* object reference, not an id.                                            *)
(*                                                                         *)
(* Message ids and object addresses are opaque to the code, which only     *)
(* compares them for equality.  The id of task t's triggering message is   *)
(* RequestId(t), the id of the k-th block of its response is BlockId(t, k) *)
(* and the messages that exist at the start are 1 .. ThreadLen.  The       *)
(* address of the v-th MessageNode built for message id is 10 * id + v.    *)
(*                                                                         *)
(* A text is a sequence of pieces, one piece per non-empty fragment it was *)
(* concatenated from: [n |-> position of the fragment in its stream,       *)
(* len |-> its number of characters].  The empty string is << >>, string   *)
(* concatenation is \o and len() is the sum of the pieces' lengths.        *)
(***************************************************************************)
EXTENDS Integers, Sequences, FiniteSets, TLC

\* ------------------------------------------------------------- constants
EMBED_MAX_LENGTH == 4096
MAX_MESSAGES == 3
MAX_IMAGES == 1
MAX_MESSAGE_WARNING == "Only using last MAX_MESSAGES messages"
MAX_IMAGE_WARNING == "Max MAX_IMAGES images per message"

\* --------------------------------------------------------------- bounds
NumTasks == 2
\* the messages of the thread that exists at the start: 1 .. ThreadLen,
\* each a reply to the one before it
ThreadLen == 2
MaxChunks == 4
ShortChunks == 4

Tasks == 1 .. NumTasks
\* fragment lengths a stream may deliver (0: an empty fragment)
FragLens == {0, 1, EMBED_MAX_LENGTH, EMBED_MAX_LENGTH + 1}
ShortLens == {1}
SeqLens == {1, EMBED_MAX_LENGTH}
\* what an incoming user message may look like: its text and the number of
\* its image attachments
RequestKinds ==
    { [content |-> "plain", images |-> 0],
      [content |-> "draw me", images |-> 0],
      [content |-> "Draw Me", images |-> 0],
      [content |-> "plain", images |-> MAX_IMAGES + 1] }

ImageKinds ==
    { [content |-> "plain", images |-> 0],
      [content |-> "plain", images |-> MAX_IMAGES + 1] }

\* the text of a request plays no part before line 190
PlainKinds == { [content |-> "plain", images |-> 0] }

ShortKinds ==
    { [content |-> "plain", images |-> 0],
      [content |-> "draw me", images |-> 0] }

VARIABLES
    msgs,                       \* the platform's messages, by id
    message_nodes,              \* id -> address of a MessageNode in heap
    heap,                       \* the MessageNode objects
    in_progress_message_ids,
    edits,                      \* the edit tasks that are not done
    pc,                         \* where each on_message task stands
    message,                    \* the id of the task's triggering message
    current_message, previous_message_id,
    messages, user_warnings,
    stream,                     \* the fragments the task has received
    finished,                   \* the terminal fragment was received
    response_messages, response_message_contents,
    previous_content, current_content,
    reply_result,               \* the message the awaited reply() created
    embed, edit_message_task, final_message_edit

vars == << msgs, message_nodes, heap, in_progress_message_ids, edits, pc,
           message, current_message, previous_message_id, messages,
           user_warnings, stream, finished, response_messages,
           response_message_contents, previous_content, current_content,
           reply_result, embed, edit_message_task, final_message_edit >>

walkVars == << message_nodes, heap, current_message, previous_message_id,
               messages, user_warnings >>
streamVars == << stream, finished, response_messages,
                 response_message_contents, previous_content,
                 current_content, reply_result, embed, edit_message_task,
                 final_message_edit >>

\* ---------------------------------------------------------------- texts
RECURSIVE TextLen(_)
TextLen(text) ==
    IF text = << >> THEN 0 ELSE Head(text).len + TextLen(Tail(text))

RECURSIVE Join(_)
Join(texts) ==
    IF texts = << >> THEN << >> ELSE Head(texts) \o Join(Tail(texts))

RECURSIVE Reverse(_)
Reverse(s) ==
    IF s = << >> THEN << >> ELSE Append(Reverse(Tail(s)), Head(s))

Last(s) == s[Len(s)]

SetLast(s, x) == [s EXCEPT ![Len(s)] = x]

RECURSIVE Remove(_, _)
Remove(s, x) ==
    IF s = << >> THEN << >>
    ELSE IF Head(s) = x THEN Tail(s)
    ELSE << Head(s) >> \o Remove(Tail(s), x)

InList(x, s) == \E i \in 1 .. Len(s) : s[i] = x

\* ------------------------------------------------------------- messages
UserMessage(ref, kind, addressed) ==
    [author |-> "user", ref |-> ref, content |-> kind.content,
     images |-> kind.images, addressed |-> addressed,
     text |-> << >>, status |-> "none"]

BotMessage(ref, text, status) ==
    [author |-> "bot", ref |-> ref, content |-> "embed", images |-> 0,
     addressed |-> FALSE, text |-> text, status |-> status]

MessageNode(src, role, content, replied_to) ==
    [src |-> src, role |-> role, content |-> content,
     too_many_images |-> FALSE, replied_to |-> replied_to]

RequestId(t) == 10 * t

BlockId(t, k) == 10 * t + k

\* the address of a new MessageNode for message id
NewAddr(hp, id) ==
    10 * id + Cardinality({a \in DOMAIN hp : a \div 10 = id}) + 1

NoTask == << >>

NoEmbed == [description |-> << >>, color |-> "none"]

\* lines 46-47: the bot has started and no message has been handled
Started ==
    /\ message_nodes = << >>
    /\ heap = << >>
    /\ in_progress_message_ids = << >>
    /\ edits = {}
    /\ pc = [t \in Tasks |-> "idle"]
    /\ message = [t \in Tasks |-> 0]
    /\ current_message = [t \in Tasks |-> 0]
    /\ previous_message_id = [t \in Tasks |-> 0]
    /\ messages = [t \in Tasks |-> << >>]
    /\ user_warnings = [t \in Tasks |-> {}]
    /\ stream = [t \in Tasks |-> << >>]
    /\ finished = [t \in Tasks |-> FALSE]
    /\ response_messages = [t \in Tasks |-> << >>]
    /\ response_message_contents = [t \in Tasks |-> << >>]
    /\ previous_content = [t \in Tasks |-> << >>]
    /\ current_content = [t \in Tasks |-> << >>]
    /\ reply_result = [t \in Tasks |-> 0]
    /\ embed = [t \in Tasks |-> NoEmbed]
    /\ edit_message_task = [t \in Tasks |-> NoTask]
    /\ final_message_edit = [t \in Tasks |-> FALSE]

Init ==
    /\ msgs = [i \in 1 .. ThreadLen |->
                  UserMessage(i - 1, [content |-> "plain", images |-> 0], FALSE)]
    /\ Started

\* ThreadLen messages with any reply references among them and to the
\* message of the first request, cycles included
InitCycle ==
    /\ \E refs \in [1 .. ThreadLen -> 0 .. ThreadLen \cup {RequestId(1)}] :
          msgs = [i \in 1 .. ThreadLen |->
                     UserMessage(refs[i], [content |-> "plain", images |-> 0],
                                 FALSE)]
    /\ Started

\* the same thread, each message with MAX_IMAGES images or one more
InitImages ==
    /\ \E imgs \in [1 .. ThreadLen -> {MAX_IMAGES, MAX_IMAGES + 1}] :
          msgs = [i \in 1 .. ThreadLen |->
                     UserMessage(i - 1, [content |-> "plain",
                                         images |-> imgs[i]], FALSE)]
    /\ Started

\* ------------------------------------------------------ arrival, waiting
\* A user message is posted and on_message is called for it (line 75).  The
\* filter of line 77 ends the handler for a message that neither mentions
\* the bot nor is in a private channel.
Passes(m) == m.addressed /\ m.author # "bot"

Arrive(t, kinds) ==
    /\ pc[t] = "idle"
    /\ IF t = 1 THEN TRUE ELSE pc[t - 1] # "idle"
    /\ \E ref \in {0} \cup DOMAIN msgs, kind \in kinds, addressed \in BOOLEAN :
          /\ addressed \/ kind = [content |-> "plain", images |-> 0]
          /\ msgs' = (RequestId(t) :> UserMessage(ref, kind, addressed)) @@ msgs
          /\ message' = [message EXCEPT ![t] = RequestId(t)]
          /\ pc' = [pc EXCEPT ![t] =
                       IF Passes(UserMessage(ref, kind, addressed))
                       THEN "wait" ELSE "done"]
    /\ UNCHANGED << in_progress_message_ids, edits, walkVars, streamVars >>

\* line 81: the condition of the wait loop
StillGenerating(t) ==
    /\ msgs[message[t]].ref # 0
    /\ InList(msgs[message[t]].ref, in_progress_message_ids)

\* lines 81-82: one turn of the loop that finds its condition true
WaitPoll(t) ==
    /\ pc[t] = "wait"
    /\ StillGenerating(t)
    /\ UNCHANGED vars

\* lines 81-84: the loop ends and the task enters channel.typing()
WaitExit(t) ==
    /\ pc[t] = "wait"
    /\ ~StillGenerating(t)
    /\ pc' = [pc EXCEPT ![t] = "typing"]
    /\ UNCHANGED << msgs, in_progress_message_ids, edits, message, walkVars,
                    streamVars >>

\* ----------------------------------------------------- the upward walk
UserText == << [n |-> 0, len |-> 1] >>

Min(a, b) == IF a < b THEN a ELSE b

\* lines 89-114 with `>=' for `>' in line 113
NodeForMut(id, m) ==
    [MessageNode(id,
                 IF m.author = "bot" THEN "assistant" ELSE "user",
                 [text |-> IF m.author = "bot" THEN m.text ELSE UserText,
                  images |-> Min(m.images, MAX_IMAGES)],
                 0)
     EXCEPT !.too_many_images = m.images >= MAX_IMAGES]

\* lines 89-114: the node built for platform message m (id)
NodeFor(id, m) ==
    [MessageNode(id,
                 IF m.author = "bot" THEN "assistant" ELSE "user",
                 [text |-> IF m.author = "bot" THEN m.text ELSE UserText,
                  images |-> Min(m.images, MAX_IMAGES)],
                 0)
     EXCEPT !.too_many_images = m.images > MAX_IMAGES]

\* lines 88-130 without the test of line 119 (lines 119-121 left out)
RECURSIVE WalkMut(_, _, _, _, _)
WalkMut(nodes, hp, cur, prev, resolved) ==
    LET m == msgs[cur]
        a == NewAddr(hp, cur)
        hp1 == (a :> NodeFor(cur, m)) @@ hp
        nodes1 == (cur :> a) @@ nodes
        hp2 == IF prev # 0
               THEN [hp1 EXCEPT ![nodes1[prev]].replied_to = nodes1[cur]]
               ELSE hp1
    IN  IF m.ref = 0
        THEN [nodes |-> nodes1, heap |-> hp2, cur |-> cur, prev |-> prev,
              out |-> "break"]
        ELSE IF cur \in resolved
        THEN WalkMut(nodes1, hp2, m.ref, cur, resolved)
        ELSE [nodes |-> nodes1, heap |-> hp2, cur |-> cur, prev |-> cur,
              out |-> "fetch"]

\* lines 88-130 with the test of line 119 made on message_nodes as it was
\* before line 106
RECURSIVE WalkSelfMut(_, _, _, _, _)
WalkSelfMut(nodes, hp, cur, prev, resolved) ==
    LET m == msgs[cur]
        a == NewAddr(hp, cur)
        hp1 == (a :> NodeFor(cur, m)) @@ hp
        nodes1 == (cur :> a) @@ nodes
        hp2 == IF prev # 0
               THEN [hp1 EXCEPT ![nodes1[prev]].replied_to = nodes1[cur]]
               ELSE hp1
    IN  IF m.ref = 0
        THEN [nodes |-> nodes1, heap |-> hp2, cur |-> cur, prev |-> prev,
              out |-> "break"]
        ELSE IF m.ref \in DOMAIN nodes
        THEN [nodes |-> nodes1,
              heap |-> [hp2 EXCEPT ![nodes1[cur]].replied_to = nodes1[m.ref]],
              cur |-> cur, prev |-> prev, out |-> "break"]
        ELSE IF cur \in resolved
        THEN WalkSelfMut(nodes1, hp2, m.ref, cur, resolved)
        ELSE [nodes |-> nodes1, heap |-> hp2, cur |-> cur, prev |-> cur,
              out |-> "fetch"]

\* lines 88-130: iterations of the walk from message cur up to its next
\* await (a fetch) or its break.  resolved: the ids of the messages whose
\* reference.resolved is a Message, which need no fetch.
RECURSIVE Walk(_, _, _, _, _)
Walk(nodes, hp, cur, prev, resolved) ==
    LET m == msgs[cur]
        a == NewAddr(hp, cur)
        hp1 == (a :> NodeFor(cur, m)) @@ hp
        nodes1 == (cur :> a) @@ nodes
        hp2 == IF prev # 0
               THEN [hp1 EXCEPT ![nodes1[prev]].replied_to = nodes1[cur]]
               ELSE hp1
    IN  IF m.ref = 0
        THEN [nodes |-> nodes1, heap |-> hp2, cur |-> cur, prev |-> prev,
              out |-> "break"]
        ELSE IF m.ref \in DOMAIN nodes1
        THEN [nodes |-> nodes1,
              heap |-> [hp2 EXCEPT ![nodes1[cur]].replied_to = nodes1[m.ref]],
              cur |-> cur, prev |-> prev, out |-> "break"]
        ELSE IF cur \in resolved
        THEN Walk(nodes1, hp2, m.ref, cur, resolved)
        ELSE [nodes |-> nodes1, heap |-> hp2, cur |-> cur, prev |-> cur,
              out |-> "fetch"]

\* ---------------------------------------------------- the downward walk
NodeMessage(n) == [src |-> n.src, role |-> n.role, content |-> n.content]

\* lines 136-142 with `<=' for `<' in line 136
RECURSIVE ReplyChainMut(_, _, _, _)
ReplyChainMut(hp, node, chain, warnings) ==
    IF node # 0 /\ Len(chain) <= MAX_MESSAGES
    THEN LET n == hp[node]
             chain1 == Append(chain, NodeMessage(n))
             w1 == IF n.too_many_images
                   THEN warnings \cup {MAX_IMAGE_WARNING} ELSE warnings
             w2 == IF Len(chain1) = MAX_MESSAGES /\ n.replied_to # 0
                   THEN w1 \cup {MAX_MESSAGE_WARNING} ELSE w1
         IN  ReplyChainMut(hp, n.replied_to, chain1, w2)
    ELSE [reply_chain |-> chain, user_warnings |-> warnings]

\* lines 136-142 without `and current_node.replied_to' in line 140
RECURSIVE ReplyChainWarnMut(_, _, _, _)
ReplyChainWarnMut(hp, node, chain, warnings) ==
    IF node # 0 /\ Len(chain) < MAX_MESSAGES
    THEN LET n == hp[node]
             chain1 == Append(chain, NodeMessage(n))
             w1 == IF n.too_many_images
                   THEN warnings \cup {MAX_IMAGE_WARNING} ELSE warnings
             w2 == IF Len(chain1) = MAX_MESSAGES
                   THEN w1 \cup {MAX_MESSAGE_WARNING} ELSE w1
         IN  ReplyChainWarnMut(hp, n.replied_to, chain1, w2)
    ELSE [reply_chain |-> chain, user_warnings |-> warnings]

\* lines 136-142: the loop, from the node at address node
RECURSIVE ReplyChain(_, _, _, _)
ReplyChain(hp, node, chain, warnings) ==
    IF node # 0 /\ Len(chain) < MAX_MESSAGES
    THEN LET n == hp[node]
             chain1 == Append(chain, NodeMessage(n))
             w1 == IF n.too_many_images
                   THEN warnings \cup {MAX_IMAGE_WARNING} ELSE warnings
             w2 == IF Len(chain1) = MAX_MESSAGES /\ n.replied_to # 0
                   THEN w1 \cup {MAX_MESSAGE_WARNING} ELSE w1
         IN  ReplyChain(hp, n.replied_to, chain1, w2)
    ELSE [reply_chain |-> chain, user_warnings |-> warnings]

\* lines 57-71
SystemPrompt ==
    [src |-> 0, role |-> "system", content |-> [text |-> UserText, images |-> 0]]

\* lines 133-143: the history of the request whose node is at address node
History(hp, node) ==
    LET r == ReplyChain(hp, node, << >>, {})
    IN  [messages |-> << SystemPrompt >> \o Reverse(r.reply_chain),
         user_warnings |-> r.user_warnings]

\* The walk stops at w: at a fetch the task is suspended (line 127); at a
\* break the history is built (lines 133-143) and the completion is
\* requested (line 151).
WalkTo(t, w) ==
    /\ message_nodes' = w.nodes
    /\ current_message' = [current_message EXCEPT ![t] = w.cur]
    /\ previous_message_id' = [previous_message_id EXCEPT ![t] = w.prev]
    /\ IF w.out = "fetch"
       THEN /\ heap' = w.heap
            /\ pc' = [pc EXCEPT ![t] = "fetch"]
            /\ UNCHANGED << messages, user_warnings >>
       ELSE LET h == History(w.heap, w.nodes[message[t]])
            IN  /\ heap' = w.heap
                /\ messages' = [messages EXCEPT ![t] = h.messages]
                /\ user_warnings' = [user_warnings EXCEPT ![t] = h.user_warnings]
                /\ pc' = [pc EXCEPT ![t] = "stream"]
    /\ UNCHANGED << msgs, in_progress_message_ids, edits, message, streamVars >>

\* the messages reached from message id by reply references, with seen
RECURSIVE Reach(_, _)
Reach(id, seen) ==
    IF id = 0 \/ id \in seen \/ id \notin DOMAIN msgs THEN seen
    ELSE Reach(msgs[id].ref, seen \cup {id})

Ancestors(id) == Reach(id, {})

\* lines 84-130: typing() was entered; the walk starts at the message
WalkStart(t) ==
    /\ pc[t] = "typing"
    /\ \E resolved \in SUBSET Ancestors(message[t]) :
          WalkTo(t, Walk(message_nodes, heap, message[t], 0, resolved))

\* lines 124-128: the fetch returns the message and the walk goes on
FetchReturn(t) ==
    /\ pc[t] = "fetch"
    /\ \E resolved \in SUBSET Ancestors(current_message[t]) :
          WalkTo(t, Walk(message_nodes, heap, msgs[current_message[t]].ref,
                         previous_message_id[t], resolved))

\* lines 129-130: the fetch raises NotFound or HTTPException
FetchFail(t) ==
    /\ pc[t] = "fetch"
    /\ WalkTo(t, [nodes |-> message_nodes, heap |-> heap,
                  cur |-> current_message[t],
                  prev |-> previous_message_id[t], out |-> "break"])

\* ------------------------------------------------- the streaming loop
\* line 157: the text of a chunk of n characters, the idx-th of its stream
Fragment(n, idx) == IF n = 0 THEN << >> ELSE << [n |-> idx, len |-> n] >>

\* line 159
NeedsNewMessage(rms, contents, pv) ==
    rms = << >> \/ TextLen(Last(contents) \o pv) > EMBED_MAX_LENGTH

\* lines 37, 162, 185
EmbedColor(complete) == IF complete THEN "complete" ELSE "incomplete"

\* line 174 with `=' for `+='
AppendPreviousMut(contents, pv) == SetLast(contents, pv)

\* line 174
AppendPrevious(contents, pv) == SetLast(contents, Last(contents) \o pv)

\* line 176
FinalMessageEdit(contents, cur) ==
    TextLen(Last(contents) \o cur) > EMBED_MAX_LENGTH \/ cur = << >>

\* lines 177-181; time_ok: enough time has passed since the last create or
\* edit (line 180)
EditNow(final, task_done, time_ok) == final \/ (task_done /\ time_ok)

\* `not edit_message_task or edit_message_task.done()'
TaskDone(t) ==
    edit_message_task[t] = NoTask \/ edit_message_task[t][1] \notin edits

\* lines 182-183 left out
MustWaitMut(t) == FALSE

\* lines 182-183: whether the edit has to wait for the task
MustWait(t) == ~TaskDone(t)

\* lines 184-188: the edit of the last block is dispatched as a task
Dispatch(t, rms, contents, final, cur) ==
    LET e == [task |-> t, block |-> Last(rms), description |-> Last(contents),
              color |-> EmbedColor(final)]
    IN  /\ embed' = [embed EXCEPT ![t] =
                        [description |-> e.description, color |-> e.color]]
        /\ edits' = edits \cup {e}
        /\ edit_message_task' = [edit_message_task EXCEPT ![t] = << e >>]
        /\ previous_content' = [previous_content EXCEPT ![t] = cur]
        /\ pc' = [pc EXCEPT ![t] = "stream"]
        /\ UNCHANGED << current_content, final_message_edit >>

\* lines 174-188, with contents the list before line 174 and cur the
\* chunk's text
Flush(t, rms, contents, cur, time_ok) ==
    LET pv == previous_content[t]
        c1 == AppendPrevious(contents, pv)
        final == FinalMessageEdit(c1, cur)
    IN  /\ response_message_contents' =
               [response_message_contents EXCEPT ![t] = c1]
        /\ IF Last(c1) # pv /\ EditNow(final, TaskDone(t), time_ok)
           THEN IF MustWait(t)
                THEN /\ pc' = [pc EXCEPT ![t] = "editwait"]
                     /\ final_message_edit' =
                            [final_message_edit EXCEPT ![t] = final]
                     /\ current_content' = [current_content EXCEPT ![t] = cur]
                     /\ UNCHANGED << edits, embed, edit_message_task,
                                     previous_content >>
                ELSE Dispatch(t, rms, c1, final, cur)
           ELSE /\ previous_content' = [previous_content EXCEPT ![t] = cur]
                /\ pc' = [pc EXCEPT ![t] = "stream"]
                /\ UNCHANGED << edits, embed, edit_message_task,
                                current_content, final_message_edit >>

\* lines 151-188: the stream delivers a chunk of n characters (last: the
\* terminal one) and the body runs up to its first await
Chunk(t, n, last, time_ok) ==
    /\ pc[t] = "stream"
    /\ ~finished[t]
    /\ last => n = 0
    /\ LET cur == Fragment(n, Len(stream[t]) + 1)
           pv == previous_content[t]
           rms == response_messages[t]
           contents == response_message_contents[t]
       IN  /\ stream' = [stream EXCEPT ![t] = Append(@, cur)]
           /\ finished' = [finished EXCEPT ![t] = last]
           /\ IF pv = << >>
              THEN /\ previous_content' = [previous_content EXCEPT ![t] = cur]
                   /\ UNCHANGED << msgs, edits, pc, response_message_contents,
                                   current_content, reply_result, embed,
                                   edit_message_task, final_message_edit >>
              ELSE IF NeedsNewMessage(rms, contents, pv)
              THEN LET color == EmbedColor(cur = << >>)
                       reply_message == IF rms = << >> THEN message[t]
                                        ELSE Last(rms)
                       id == BlockId(t, Len(rms) + 1)
                   IN  /\ msgs' = (id :> BotMessage(reply_message, pv, color)) @@ msgs
                       /\ reply_result' = [reply_result EXCEPT ![t] = id]
                       /\ embed' = [embed EXCEPT ![t] =
                                       [description |-> pv, color |-> color]]
                       /\ current_content' = [current_content EXCEPT ![t] = cur]
                       /\ pc' = [pc EXCEPT ![t] = "create"]
                       /\ UNCHANGED << edits, response_message_contents,
                                       previous_content, edit_message_task,
                                       final_message_edit >>
              ELSE /\ Flush(t, rms, contents, cur, time_ok)
                   /\ UNCHANGED << msgs, reply_result >>
    /\ UNCHANGED << in_progress_message_ids, message, walkVars,
                    response_messages >>

\* lines 165-188: reply() returns the new block
CreateReturn(t) ==
    /\ pc[t] = "create"
    /\ response_messages' =
           [response_messages EXCEPT ![t] = Append(@, reply_result[t])]
    /\ in_progress_message_ids' =
           Append(in_progress_message_ids, reply_result[t])
    /\ \E time_ok \in BOOLEAN :
          Flush(t, response_messages'[t],
                Append(response_message_contents[t], << >>),
                current_content[t], time_ok)
    /\ UNCHANGED << msgs, message, walkVars, stream, finished, reply_result >>

\* lines 182-183: one turn of the loop while the task is not done
EditWaitPoll(t) ==
    /\ pc[t] = "editwait"
    /\ MustWait(t)
    /\ UNCHANGED vars

\* lines 182-188: the task is done and the edit is dispatched
EditWaitExit(t) ==
    /\ pc[t] = "editwait"
    /\ ~MustWait(t)
    /\ Dispatch(t, response_messages[t], response_message_contents[t],
                final_message_edit[t], current_content[t])
    /\ UNCHANGED << msgs, in_progress_message_ids, message, walkVars, stream,
                    finished, response_messages, response_message_contents,
                    reply_result >>

\* line 186: an edit task runs to its end; the block shows its embed
EditDone(e) ==
    /\ e \in edits
    /\ edits' = edits \ {e}
    /\ msgs' = [msgs EXCEPT ![e.block].text = e.description,
                            ![e.block].status = e.color]
    /\ UNCHANGED << in_progress_message_ids, pc, message, walkVars, streamVars >>

\* line 186: an edit task ends with an exception, which stays in the task
\* object (nothing awaits the task); done() is true from then on
EditFail(e) ==
    /\ e \in edits
    /\ edits' = edits \ {e}
    /\ UNCHANGED << msgs, in_progress_message_ids, pc, message, walkVars,
                    streamVars >>

\* lines 151-156: the request for the completion, or the stream while it
\* is iterated, raises; the exception leaves on_message
StreamFail(t) ==
    /\ pc[t] = "stream"
    /\ ~finished[t]
    /\ pc' = [pc EXCEPT ![t] = "failed"]
    /\ UNCHANGED << msgs, in_progress_message_ids, edits, message, walkVars,
                    streamVars >>

\* lines 165-170: reply() raises and the exception leaves on_message;
\* created: the platform has made the block all the same
CreateFail(t) ==
    /\ pc[t] = "create"
    /\ pc' = [pc EXCEPT ![t] = "failed"]
    /\ \E created \in BOOLEAN :
          msgs' = IF created THEN msgs
                  ELSE [id \in DOMAIN msgs \ {reply_result[t]} |-> msgs[id]]
    /\ UNCHANGED << in_progress_message_ids, edits, message, walkVars,
                    streamVars >>

\* ------------------------------------------------- after the streaming
\* line 190: 'draw me' in message.content.lower()
DrawRequested(content) == content \in {"draw me", "Draw Me"}

\* line 192: message.content.split('draw me')[1] raises IndexError when the
\* text holds the words in another case only
SplitFails(content) == content = "Draw Me"

\* lines 218-227: the nodes of the response's blocks, and their removal
\* from in_progress_message_ids
RECURSIVE CreateNodes(_, _, _, _, _, _)
CreateNodes(nodes, hp, inprog, rms, text, request) ==
    IF rms = << >>
    THEN [nodes |-> nodes, heap |-> hp, in_progress |-> inprog]
    ELSE LET a == NewAddr(hp, Head(rms))
             hp1 == (a :> MessageNode(Head(rms), "assistant",
                                      [text |-> text, images |-> 0],
                                      nodes[request])) @@ hp
         IN  CreateNodes((Head(rms) :> a) @@ nodes, hp1,
                         Remove(inprog, Head(rms)), Tail(rms), text, request)

\* lines 188-212: the stream is exhausted, the loop and typing() are left
\* and the request for a drawing is handled up to its await
StreamEnd(t) ==
    /\ pc[t] = "stream"
    /\ finished[t]
    /\ LET content == msgs[message[t]].content
       IN  IF ~DrawRequested(content)
           THEN pc' = [pc EXCEPT ![t] = "done"]
           ELSE IF SplitFails(content)
           THEN pc' = [pc EXCEPT ![t] = "failed"]
           ELSE \E ok \in BOOLEAN :
                   pc' = [pc EXCEPT ![t] = IF ok THEN "send_image"
                                           ELSE "send_sorry"]
    /\ UNCHANGED << msgs, in_progress_message_ids, edits, message, walkVars,
                    streamVars >>

\* lines 210, 217-227: the image was sent; nodes are created for the blocks
ImageSent(t) ==
    /\ pc[t] = "send_image"
    /\ LET r == CreateNodes(message_nodes, heap, in_progress_message_ids,
                            response_messages[t],
                            Join(response_message_contents[t]), message[t])
       IN  /\ message_nodes' = r.nodes
           /\ heap' = r.heap
           /\ in_progress_message_ids' = r.in_progress
    /\ pc' = [pc EXCEPT ![t] = "done"]
    /\ UNCHANGED << msgs, edits, message, current_message,
                    previous_message_id, messages, user_warnings, streamVars >>

\* lines 212-215: the apology was sent and the handler returns
SorrySent(t) ==
    /\ pc[t] = "send_sorry"
    /\ pc' = [pc EXCEPT ![t] = "done"]
    /\ UNCHANGED << msgs, in_progress_message_ids, edits, message, walkVars,
                    streamVars >>

\* ------------------------------------------------------ specifications
\* line 151: the next chunk of a stream of at most max chunks, with
\* lengths in lens, that ends with the terminal empty chunk
Receive(t, lens, max) ==
    /\ Len(stream[t]) < max
    /\ \E n \in lens \cup {0}, last \in BOOLEAN, time_ok \in BOOLEAN :
          /\ n \in lens \/ last
          /\ Len(stream[t]) + 1 = max => last
          /\ Chunk(t, n, last, time_ok)

\* the steps of a task whose reply target is not being generated
Step(t, kinds, lens, max) ==
    \/ Arrive(t, kinds)
    \/ WaitExit(t)
    \/ WalkStart(t)
    \/ FetchReturn(t)
    \/ FetchFail(t)
    \/ Receive(t, lens, max)
    \/ CreateReturn(t)
    \/ EditWaitPoll(t)
    \/ EditWaitExit(t)
    \/ StreamEnd(t)
    \/ ImageSent(t)
    \/ SorrySent(t)

TaskStep(t, kinds, lens, max) ==
    \/ WaitPoll(t)
    \/ Step(t, kinds, lens, max)

Next ==
    \/ \E t \in Tasks : TaskStep(t, ShortKinds, ShortLens, ShortChunks)
    \/ \E e \in edits : EditDone(e)

Spec == Init /\ [][Next]_vars

\* one request, with streams of long fragments; no block exists when it
\* arrives, so its wait loop (WaitPoll) never finds its condition true
NextStream ==
    \/ Step(1, RequestKinds, FragLens, MaxChunks)
    \/ \E e \in edits : EditDone(e)

SpecStream == Init /\ [][NextStream]_vars

\* lines 75-143: the upward walks of the requests, interleaved at their
\* fetches, up to the request for the completion
WalkOkStep(t) ==
    \/ Arrive(t, PlainKinds)
    \/ WaitExit(t)
    \/ WalkStart(t)
    \/ FetchReturn(t)

WalkStep(t) ==
    \/ WalkOkStep(t)
    \/ FetchFail(t)

NextWalk == \E t \in Tasks : WalkStep(t)

SpecWalk == Init /\ [][NextWalk]_vars

\* the same, every fetch succeeding
NextFetchOk == \E t \in Tasks : WalkOkStep(t)

SpecFetchOk == Init /\ [][NextFetchOk]_vars

\* the walk of one request over any reply graph; the walk starts when
\* typing() is entered and every fetch returns or fails
NextCycle ==
    \/ Arrive(1, PlainKinds)
    \/ WaitExit(1)
    \/ WalkStart(1)
    \/ FetchReturn(1)
    \/ FetchFail(1)

SpecCycle ==
    /\ InitCycle
    /\ [][NextCycle]_vars
    /\ WF_vars(WalkStart(1))
    /\ WF_vars(FetchReturn(1) \/ FetchFail(1))

\* the walk of a request with or without images over a thread of messages
\* with images
NextImages ==
    \/ Arrive(1, ImageKinds)
    \/ WaitExit(1)
    \/ WalkStart(1)
    \/ FetchReturn(1)
    \/ FetchFail(1)

SpecImages == InitImages /\ [][NextImages]_vars

\* two requests handled one after the other, every fetch succeeding: the
\* second arrives when the handler of the first has returned and its edits
\* are done, and is followed up to the request for its completion
SeqFirst ==
    \/ Arrive(1, ShortKinds)
    \/ WaitExit(1)
    \/ WalkStart(1)
    \/ FetchReturn(1)
    \/ Receive(1, SeqLens, MaxChunks)
    \/ CreateReturn(1)
    \/ EditWaitPoll(1)
    \/ EditWaitExit(1)
    \/ StreamEnd(1)
    \/ ImageSent(1)
    \/ SorrySent(1)
    \/ \E e \in edits : EditDone(e)

SeqSecond ==
    /\ pc[1] = "done"
    /\ edits = {}
    /\ \/ Arrive(2, PlainKinds)
       \/ WaitPoll(2)
       \/ WaitExit(2)
       \/ WalkStart(2)
       \/ FetchReturn(2)

NextSeq == SeqFirst \/ SeqSecond

SpecSeq == Init /\ [][NextSeq]_vars

\* one request whose completion stream, block creations and edits may fail
NextFail ==
    \/ Step(1, ShortKinds, FragLens, MaxChunks)
    \/ StreamFail(1)
    \/ CreateFail(1)
    \/ \E e \in edits : EditDone(e)
    \/ \E e \in edits : EditFail(e)

SpecFail == Init /\ [][NextFail]_vars

\* ---------------------------------------------------------------- claims
\* the reply target of task q's message (0: none)
Reference(q) == msgs[message[q]].ref

\* the terminal fragment of r's stream was processed
StreamingOver(r) == finished[r] /\ pc[r] \notin {"create", "editwait"}

\* the streaming loop of r has not ended
Streaming(r) == pc[r] \in {"stream", "create", "editwait"} /\ ~StreamingOver(r)

\* id is a block of r's response
BlockOf(id, r) ==
    \/ InList(id, response_messages[r])
    \/ pc[r] = "create" /\ id = reply_result[r]

\* C1: when on_message has returned for a request, none of the blocks of
\* its response is in in_progress_message_ids, whatever the message's text.
C1_NoBlockLeftInProgress ==
    \A t \in Tasks :
        pc[t] = "done" =>
            \A i \in 1 .. Len(response_messages[t]) :
                ~InList(response_messages[t][i], in_progress_message_ids)

\* C2: a request that waits because it replies to a block of a response
\* leaves the wait loop once the response has finished.  Only the handler
\* of the response removes its blocks from in_progress_message_ids, so when
\* that handler has ended the waiter's loop condition must be false: a
\* waiter whose condition is still true then waits for ever.
C2_FinishedResponseFreesWaiter ==
    \A q \in Tasks, r \in Tasks :
        (/\ pc[r] \in {"done", "failed"}
         /\ pc[q] = "wait"
         /\ InList(Reference(q), response_messages[r]))
        => ~StillGenerating(q)

\* C3: no request starts its walk (builds a node, issues a fetch) while
\* the message it replies to is a block of a response that is still being
\* streamed.
C3_NoChainOnStreamingTarget ==
    [][\A q \in Tasks :
          (pc[q] = "typing" /\ pc'[q] # "typing") =>
              ~\E r \in Tasks : Streaming(r) /\ BlockOf(Reference(q), r)]_vars

\* C4: when the stream has ended with its terminal fragment, the texts of
\* response_message_contents, concatenated in order, are the non-terminal
\* fragments received, concatenated in order.
C4_ConcatenationPreserved ==
    \A t \in Tasks :
        StreamingOver(t) =>
            Join(response_message_contents[t]) = Join(stream[t])

\* C4's case: a finished stream of several segments with an empty fragment
\* before a non-empty one
C4_Witness ==
    \E t \in Tasks :
        /\ StreamingOver(t)
        /\ Len(response_message_contents[t]) >= 2
        /\ \E i \in 1 .. Len(stream[t]), j \in 1 .. Len(stream[t]) :
              i < j /\ stream[t][i] = << >> /\ stream[t][j] # << >>

\* C5: no segment's text, no text a block was created with and no text of
\* an edit is longer than EMBED_MAX_LENGTH.
C5_NoTextOverCap ==
    /\ \A t \in Tasks : \A i \in 1 .. Len(response_message_contents[t]) :
          TextLen(response_message_contents[t][i]) <= EMBED_MAX_LENGTH
    /\ \A id \in DOMAIN msgs : TextLen(msgs[id].text) <= EMBED_MAX_LENGTH
    /\ \A e \in edits : TextLen(e.description) <= EMBED_MAX_LENGTH

\* C6: at no time are two edit tasks for the same block outstanding.
C6_OneEditPerBlock ==
    \A e1 \in edits, e2 \in edits : e1.block = e2.block => e1 = e2

\* C6's case: an edit of a block is due while an edit of that block is
\* outstanding
C6_Witness ==
    \E t \in Tasks :
        /\ pc[t] = "editwait"
        /\ \E e \in edits : e.block = Last(response_messages[t])

\* every fragment of t's stream fits into a block
FragmentsFit(t) ==
    \A i \in 1 .. Len(stream[t]) : TextLen(stream[t][i]) <= EMBED_MAX_LENGTH

\* C7: once the stream is exhausted and the edits of the response are done,
\* every block of the response shows status complete (stated for the
\* streams whose fragments each fit into a block).
C7_AllBlocksComplete ==
    \A t \in Tasks :
        (StreamingOver(t) /\ FragmentsFit(t) /\ ~\E e \in edits : e.task = t) =>
            \A i \in 1 .. Len(response_messages[t]) :
                msgs[response_messages[t][i]].status = "complete"

\* C8: no fragment is appended to a segment whose block was last created
\* or edited with status complete.
C8_CompleteOnlyWhenClosed ==
    [][\A t \in Tasks :
          (/\ Len(response_message_contents'[t]) = Len(response_message_contents[t])
           /\ response_message_contents'[t] # response_message_contents[t])
          => embed[t].color # "complete"]_vars

\* the messages of the chain linked from the node at address a, newest
\* first
RECURSIVE LinkedChain(_, _, _)
LinkedChain(hp, a, fuel) ==
    IF a = 0 \/ fuel = 0 THEN << >>
    ELSE << NodeMessage(hp[a]) >> \o LinkedChain(hp, hp[a].replied_to, fuel - 1)

\* the last k elements of s
Newest(s, k) == SubSeq(s, Len(s) - k + 1, Len(s))

\* task t ends its upward walk in this step
WalkEnds(t) == pc[t] \in {"typing", "fetch"} /\ pc'[t] = "stream"

\* the chain linked from the node of t's request when the walk has ended
ChainAtEnd(t) ==
    LinkedChain(heap', message_nodes'[message[t]], Cardinality(DOMAIN heap'))

\* C9: the history after the system prompt is the min(L, MAX_MESSAGES)
\* newest messages of the linked chain of length L, oldest first.
C9_HistoryIsNewestInOrder ==
    [][\A t \in Tasks :
          WalkEnds(t) =>
              Tail(messages'[t]) =
                  Newest(Reverse(ChainAtEnd(t)),
                         Min(Len(ChainAtEnd(t)), MAX_MESSAGES))]_vars

\* C9's case: a history built from a chain longer than MAX_MESSAGES
C9_Witness ==
    \E t \in Tasks :
        /\ pc[t] = "stream"
        /\ Len(messages[t]) = MAX_MESSAGES + 1
        /\ messages[t][Len(messages[t])].src = message[t]
        /\ Len(LinkedChain(heap, message_nodes[message[t]],
                           Cardinality(DOMAIN heap))) > MAX_MESSAGES

\* C10: the message-count warning is in the warning set exactly when the
\* linked chain has more than MAX_MESSAGES nodes.
C10_WarningIffLongChain ==
    [][\A t \in Tasks :
          WalkEnds(t) =>
              (MAX_MESSAGE_WARNING \in user_warnings'[t]
                  <=> Len(ChainAtEnd(t)) > MAX_MESSAGES)]_vars

\* C10's case: a request that replies to a message, whose chain a failed
\* fetch cut down to its own node, and that has no message-count warning
C10_Witness ==
    \E t \in Tasks :
        /\ pc[t] = "stream"
        /\ Reference(t) # 0
        /\ Len(messages[t]) = 2
        /\ MAX_MESSAGE_WARNING \notin user_warnings[t]

\* task t runs iterations of its upward walk in this step
Walked(t) ==
    /\ pc[t] \in {"typing", "fetch"}
    /\ heap' # heap
    /\ pc'[t] # pc[t] \/ current_message'[t] # current_message[t]

\* the node under id, as message_nodes and heap hold it after the step
NodeAfter(id) == heap'[message_nodes'[id]]

\* C11: when the walk of a request stops at a message whose reply target is
\* a key of message_nodes, it has linked the message's node to the cached
\* node and it ends there: it is not suspended at a fetch, and a request
\* whose walk has ended issues no fetch any more.
C11_CachedTargetEndsWalk ==
    [][\A t \in Tasks :
          /\ Walked(t) =>
                LET cur == current_message'[t]
                    ref == msgs[cur].ref
                IN  (ref # 0 /\ ref \in DOMAIN message_nodes') =>
                        /\ pc'[t] = "stream"
                        /\ NodeAfter(cur).replied_to = message_nodes'[ref]
          /\ pc[t] \notin {"typing", "fetch"} => pc'[t] # "fetch"]_vars

\* C11's case: a walk that went up by a fetch and ended at a message whose
\* reply target had a node, to which the message's node is linked
C11_Witness ==
    \E t \in Tasks :
        /\ pc[t] = "stream"
        /\ current_message[t] # message[t]
        /\ msgs[current_message[t]].ref # 0
        /\ msgs[current_message[t]].ref \in DOMAIN message_nodes
        /\ heap[message_nodes[current_message[t]]].replied_to =
               message_nodes[msgs[current_message[t]].ref]

\* C12: after a response has completed, the node message_nodes holds under
\* the id of each of its blocks has role assistant, the text of that
\* block's segment as its content and the node of the request as its
\* replied_to (stated for the blocks that were given a node).
C12_BlockNodeHoldsItsSegment ==
    \A t \in Tasks :
        pc[t] = "done" =>
            \A i \in 1 .. Len(response_messages[t]) :
                response_messages[t][i] \in DOMAIN message_nodes =>
                    LET node == heap[message_nodes[response_messages[t][i]]]
                    IN  /\ node.role = "assistant"
                        /\ node.content.text = response_message_contents[t][i]
                        /\ node.replied_to = message_nodes[message[t]]

\* the ids of the nodes on the chain linked from the node at address a
RECURSIVE ChainIds(_, _, _)
ChainIds(hp, a, fuel) ==
    IF a = 0 \/ fuel = 0 THEN {}
    ELSE {hp[a].src} \cup ChainIds(hp, hp[a].replied_to, fuel - 1)

\* no walk is under way
WalksComplete ==
    \A t \in Tasks : pc[t] \in {"idle", "done", "stream"}

\* C13: when the walks of the requests have ended after fetches that all
\* succeeded, the chain linked from the node of each request holds a node
\* for every ancestor of its message, whatever the interleaving.
C13_ChainReachesRoot ==
    \A t \in Tasks :
        (pc[t] = "stream" /\ WalksComplete) =>
            Ancestors(message[t]) \subseteq
                ChainIds(heap, message_nodes[message[t]],
                         Cardinality(DOMAIN heap))

\* C17: no entry of message_nodes is replaced by another node object for
\* the same message id.
C17_NodeCreatedOnce ==
    [][\A id \in DOMAIN message_nodes :
          message_nodes'[id] = message_nodes[id]]_vars

\* C14: when the handling of a request has ended by a failure of its
\* completion stream or of a block creation, no block of its response is
\* in in_progress_message_ids.
C14_FailureLeavesNoBlockInProgress ==
    \A t \in Tasks :
        pc[t] = "failed" =>
            \A i \in 1 .. Len(response_messages[t]) :
                ~InList(response_messages[t][i], in_progress_message_ids)

\* C15: the node of a message has too_many_images exactly when the message
\* has more than MAX_IMAGES images, its content holds at most MAX_IMAGES
\* images, and a history that includes a message with more than MAX_IMAGES
\* images comes with the image warning.
C15_TooManyImagesFlagged ==
    [][/\ \A a \in DOMAIN heap' :
             /\ heap'[a].too_many_images <=>
                    msgs'[heap'[a].src].images > MAX_IMAGES
             /\ heap'[a].content.images <= MAX_IMAGES
       /\ \A t \in Tasks :
             WalkEnds(t) =>
                 \A i \in 2 .. Len(messages'[t]) :
                     msgs[messages'[t][i].src].images > MAX_IMAGES =>
                         MAX_IMAGE_WARNING \in user_warnings'[t]]_vars

\* C15's case: a history that holds an ancestor with more than MAX_IMAGES
\* images, with the warning, while the request itself has none
C15_Witness ==
    \E t \in Tasks :
        /\ pc[t] = "stream"
        /\ msgs[message[t]].images = 0
        /\ \E i \in 2 .. Len(messages[t]) :
              msgs[messages[t][i].src].images > MAX_IMAGES
        /\ MAX_IMAGE_WARNING \in user_warnings[t]

\* the code after the streaming loop runs or has run for t
AfterLoop(t) == pc[t] \in {"send_image", "send_sorry", "done", "failed"}

\* C16: when the code after the streaming loop of a response runs, no edit
\* task of the response is outstanding.
C16_NoEditOutstandingAfterLoop ==
    \A t \in Tasks :
        AfterLoop(t) => ~\E e \in edits : e.task = t

\* the ids of the platform messages from message from up to its ancestor to
RECURSIVE PathTo(_, _)
PathTo(from, to) ==
    IF from = to \/ msgs[from].ref = 0 THEN << from >>
    ELSE << from >> \o PathTo(msgs[from].ref, to)

\* the ids of the messages of a history or chain
Ids(ms) == [i \in 1 .. Len(ms) |-> ms[i].src]

\* the fetch task t is suspended at fails in this step
FetchFailed(t) == pc[t] = "fetch" /\ pc'[t] # "fetch" /\ heap' = heap

\* C18: when the fetch of a reply target fails, the request goes on to the
\* completion; the chain linked from its node holds exactly the messages
\* the walk got before the failure, and the history is made of these.
C18_FetchFailureTruncates ==
    [][\A t \in Tasks :
          FetchFailed(t) =>
              LET got == PathTo(message[t], current_message[t])
              IN  /\ pc'[t] = "stream"
                  /\ Ids(ChainAtEnd(t)) = got
                  /\ Ids(Tail(messages'[t])) =
                         Newest(Reverse(got), Min(Len(got), MAX_MESSAGES))]_vars

\* C19: over any reply graph the walk of a request ends, and it builds at
\* most one node per message id (a message is fetched before its node is
\* built, so it is fetched at most once as well).
C19_WalkTerminates ==
    /\ \A t \in Tasks : (pc[t] = "typing") ~> (pc[t] = "stream")
    /\ [](\A a \in DOMAIN heap : a = 10 * heap[a].src + 1)

\* C19's case: a walk that has ended after it went round a cycle of reply
\* references
C19_Witness ==
    /\ pc[1] = "stream"
    /\ previous_message_id[1] # 0
    /\ \E id \in DOMAIN message_nodes :
          /\ id \in Ancestors(msgs[id].ref)
          /\ heap[message_nodes[id]].replied_to # 0

\* the history of t's request when message_nodes is empty at its start and
\* the walk gets every ancestor of the message
FreshHistory(t) ==
    LET w == Walk(<< >>, << >>, message[t], 0, Ancestors(message[t]))
    IN  History(w.heap, w.nodes[message[t]])

\* C20: for requests handled one after the other, the ids of the messages
\* of a request's history are those of the history the request gets from
\* an empty message_nodes.
C20_CacheTransparent ==
    [][\A t \in Tasks :
          WalkEnds(t) =>
              Ids(Tail(messages'[t])) = Ids(Tail(FreshHistory(t).messages))]_vars

====
